---- MODULE Spec2Model ----
(***************************************************************************)
(* BrowserAgent.execute of agent-browser, in its two forms:                *)
(*   "plan"   : the explicit request/response loop of the plan document    *)
(*              (src/unnamed/part_000, lines 121-386);                     *)
(*   "stream" : the consumer of the agent SDK's message stream             *)
(*              (src/src/browser-agent.ts, lines 58-272).                  *)
(* One behaviour of Spec is one execute call, one of SpecPair two calls on *)
(* one agent, one of SpecDispatch a run of the action dispatcher           *)
(* alone, over the arguments a request may carry.  Strings the code        *)
(* builds by interpolation are sequences of tokens, so that a prefix such  *)
(* as "Error: " and the interpolated parts can be told apart.              *)
(* Where two calls run at once (SpecPair), the variables hold the call     *)
(* that takes the next step and parked holds the other, suspended at an    *)
(* await.  page is the page the browser session shows.  setup is the       *)
(* environment and the per-call configuration an agent is constructed      *)
(* from (SpecConfig).  reply is the answer of the daemon's do handler to   *)
(* a call made through it.  inflight holds the requests handed to the      *)
(* dispatcher whose browser call has not settled (SpecDispatch).           *)
(***************************************************************************)
EXTENDS Integers, Sequences, FiniteSets, TLC

VARIABLES impl, maxTurns, pc, turns, messages, response, toolIdx,
          toolResults, result, lastAssistantMessage, sdk, pending,
          invocations, dispatched, raised, hist, expired, parked, page, setup,
          reply, inflight

vars == <<impl, maxTurns, pc, turns, messages, response, toolIdx,
          toolResults, result, lastAssistantMessage, sdk, pending,
          invocations, dispatched, raised, hist, expired, parked, page, setup,
          reply, inflight>>

\* ------------------------------------------------------------- bounds

\* Largest maxTurns an execute call is configured with.
MaxTurns == 2

\* Most tool_use blocks in one model response.
MaxBatch == 2

\* ------------------------------------------------------------- inputs

\* The instruction of a call: the empty string, or some words.
Instructions == {"", "click the only button"}

\* The text of a text block: none, or some words.
Texts == {<< >>, <<"T1">>}

\* error.message of a rejected browser call or model call.
BrowserErrors == {"no element matches"}
ModelErrors == {"service unavailable"}

\* The pages the browser session may show.
Pages == {"p1", "p2"}

\* The element tree the session returns for a page: the interactive
\* elements alone, or all of them.
SessionTree(pg, interactive) ==
    IF interactive
    THEN (IF pg = "p1" THEN "- button [ref=e1]" ELSE "- link [ref=e1]")
    ELSE (IF pg = "p1" THEN "- heading\n- button [ref=e1]"
          ELSE "- heading\n- link [ref=e1]")

NoResult == [kind |-> "none"]

\* ------------------------------------------------------------ strings

\* JavaScript truthiness of a string built as a token sequence.
Truthy(s) == Len(s) > 0

\* a || b on strings.
OrElse(a, b) == IF Truthy(a) THEN a ELSE b

RECURSIVE Join(_, _)
\* parts.join(sep) for a sequence of token sequences.
Join(parts, sep) ==
    IF Len(parts) = 0 THEN << >>
    ELSE IF Len(parts) = 1 THEN parts[1]
    ELSE parts[1] \o <<sep>> \o Join(Tail(parts), sep)

\* ---------------------------------------------------- model responses

TextBlock(t) == [type |-> "text", text |-> t]

ToolUse(name, input) == [type |-> "tool_use", name |-> name, input |-> input]

\* One representative request per action of the catalogue, the two done
\* signals, and a name outside the catalogue.
BrowserRequests ==
    { ToolUse("snapshot", [fullPage |-> FALSE]),
      ToolUse("click", [target |-> "@e1"]),
      ToolUse("fill", [target |-> "@bad", value |-> "x"]),
      ToolUse("type", [target |-> "@e1", text |-> "hi"]),
      ToolUse("press", [key |-> "Enter"]),
      ToolUse("scroll", [direction |-> "down"]),
      ToolUse("wait", [selector |-> "#ready"]) }

DoneRequests ==
    { ToolUse("done", [success |-> TRUE, summary |-> <<"S">>]),
      ToolUse("done", [success |-> FALSE, summary |-> <<"F">>]) }

UnknownRequests == { ToolUse("hover", [target |-> "@e1"]) }

PlanRequests == BrowserRequests \cup DoneRequests \cup UnknownRequests

\* Requests of the streamed form: the seven tools of createBrowserTools.
StreamRequests ==
    { ToolUse("browser_snapshot", [fullPage |-> FALSE]),
      ToolUse("browser_click", [target |-> "@e1"]),
      ToolUse("browser_fill", [target |-> "@bad", value |-> "x"]),
      ToolUse("browser_type", [target |-> "@e1", text |-> "hi"]),
      ToolUse("browser_press", [key |-> "Enter"]),
      ToolUse("browser_scroll", [direction |-> "down"]),
      ToolUse("browser_wait", [selector |-> "#ready"]) }

\* The tool_use blocks of the k-th response, each with its correlation id.
WithIds(batch, k) ==
    [i \in 1..Len(batch) |->
        [type |-> "tool_use", id |-> <<k, i>>,
         name |-> batch[i].name, input |-> batch[i].input]]

\* The requests that batches of several requests are drawn from.
PlanCore ==
    { ToolUse("click", [target |-> "@e1"]) } \cup DoneRequests

StreamCore == { ToolUse("browser_click", [target |-> "@e1"]) }

\* The batches of one response: any single request, or up to MaxBatch of
\* the core requests.
Batches(reqs, core) ==
    { <<r>> : r \in reqs } \cup UNION { [1..n -> core] : n \in 2..MaxBatch }

\* response.content of the k-th response: text alone (or nothing at all),
\* a batch of tool uses, or a text block followed by one core request.
Contents(reqs, core, k) ==
    {<< >>}
    \cup { <<TextBlock(t)>> : t \in Texts }
    \cup { WithIds(b, k) : b \in Batches(reqs, core) }
    \cup { <<TextBlock(<<"T1">>)>> \o WithIds(<<r>>, k) : r \in core }

RECURSIVE SelectType(_, _)
\* content.filter(block => block.type === ty)
SelectType(content, ty) ==
    IF Len(content) = 0 THEN << >>
    ELSE IF Head(content).type = ty
         THEN <<Head(content)>> \o SelectType(Tail(content), ty)
         ELSE SelectType(Tail(content), ty)

ToolUsesOf(content) == SelectType(content, "tool_use")

TextBlocksOf(content) == SelectType(content, "text")

\* --------------------------------------------------- action dispatcher

\* The outcome of a request that touches no browser: it cannot reject.
NoCall == [ok |-> TRUE, text |-> ""]

Has(input, f) == f \in DOMAIN input

\* Pixels of a scroll when the request gives none.
DefaultScrollAmount == 500

\* (args.amount as number) || 500
ScrollAmount(input) ==
    IF Has(input, "amount") /\ input.amount # 0 THEN input.amount
    ELSE DefaultScrollAmount

\* Truthiness of args.ms and args.selector in the wait case.
WaitMs(input) == Has(input, "ms") /\ input.ms # 0

WaitSelector(input) == Has(input, "selector") /\ input.selector # ""

\* Interactive asking for the interactive elements whatever the request.
InteractiveAlways(input) == TRUE

\* interactive: !args.fullPage
Interactive(input) == ~(Has(input, "fullPage") /\ input.fullPage)

\* The browser call one case of executeTool makes, with its arguments;
\* method "none" when it calls no browser method (an unknown name, a wait
\* without condition, a wait on setTimeout, which has its timer).
PlanCall(name, input) ==
    CASE name = "snapshot" ->
            [method |-> "snapshot", interactive |-> Interactive(input)]
      [] name = "click" -> [method |-> "click", target |-> input.target]
      [] name = "fill" ->
            [method |-> "fill", target |-> input.target, value |-> input.value]
      [] name = "type" ->
            [method |-> "type", target |-> input.target, text |-> input.text]
      [] name = "press" -> [method |-> "press", key |-> input.key]
      [] name = "scroll" ->
            [method |-> "scroll", direction |-> input.direction,
             amount |-> ScrollAmount(input)]
      [] name = "wait" ->
            IF WaitMs(input) THEN [method |-> "none", timer |-> input.ms]
            ELSE IF WaitSelector(input)
                 THEN [method |-> "waitForSelector", selector |-> input.selector]
                 ELSE [method |-> "none"]
      [] OTHER -> [method |-> "none"]

\* The browser method one case of executeTool calls.
PlanBrowserCall(name, input) == PlanCall(name, input).method

\* The names of the tools execute offers the model.
Catalogue ==
    {"snapshot", "click", "fill", "type", "press", "scroll", "wait", "done"}

\* UnknownTool without the name.
UnknownToolNameless(name) == <<"Unknown tool">>

\* The text of the default case of executeTool.
UnknownTool(name) == <<"Unknown tool: ", name>>

\* The text a case of executeTool returns when its browser call resolved.
PlanToolText(name, input, out) ==
    CASE name = "snapshot" -> <<out.text>>
      [] name = "click" -> <<"Clicked ", input.target>>
      [] name = "fill" -> <<"Filled ", input.target, " with \"", input.value, "\"">>
      [] name = "type" -> <<"Typed \"", input.text, "\" into ", input.target>>
      [] name = "press" -> <<"Pressed ", input.key>>
      [] name = "scroll" ->
            <<"Scrolled ", input.direction, " ", ToString(ScrollAmount(input)), "px">>
      [] name = "wait" ->
            IF WaitMs(input) THEN <<"Waited ", ToString(input.ms), "ms">>
            ELSE IF WaitSelector(input) THEN <<"Element ", input.selector, " appeared">>
            ELSE <<"No wait condition specified">>
      [] OTHER -> UnknownTool(name)

Returned(text) == [kind |-> "returned", text |-> text]

Raised(message) == [kind |-> "raised", message |-> message]

\* The switch of executeTool, inside its try: the text of the case, or the
\* error its browser call rejected with.
PlanToolBody(name, input, out) ==
    IF PlanBrowserCall(name, input) # "none" /\ ~out.ok
    THEN Raised(out.message)
    ELSE Returned(PlanToolText(name, input, out))

\* executeTool: the switch with its catch, which turns an error into text.
ExecuteTool(name, input, out) ==
    LET body == PlanToolBody(name, input, out)
    IN  IF body.kind = "raised"
        THEN Returned(<<"Error: ", body.message>>)
        ELSE body

\* The text a tool handler of createBrowserTools returns when its browser
\* calls resolved.
HandlerText(name, input, out) ==
    CASE name = "browser_snapshot" -> <<out.text>>
      [] name = "browser_click" -> <<"Clicked ", input.target>>
      [] name = "browser_fill" ->
            <<"Filled ", input.target, " with \"", input.value, "\"">>
      [] name = "browser_type" ->
            <<"Typed \"", input.text, "\" into ", input.target>>
      [] name = "browser_press" -> <<"Pressed ", input.key>>
      [] name = "browser_scroll" ->
            <<"Scrolled ", input.direction, " ", ToString(ScrollAmount(input)), "px">>
      [] name = "browser_wait" ->
            IF WaitMs(input) THEN <<"Waited ", ToString(input.ms), "ms">>
            ELSE IF WaitSelector(input) THEN <<"Element ", input.selector, " appeared">>
            ELSE <<"No wait condition specified">>

\* deltaX of the scroll handler's switch.
ScrollDeltaX(input) ==
    CASE input.direction = "left" -> 0 - ScrollAmount(input)
      [] input.direction = "right" -> ScrollAmount(input)
      [] OTHER -> 0

\* deltaY of the scroll handler's switch.
ScrollDeltaY(input) ==
    CASE input.direction = "up" -> 0 - ScrollAmount(input)
      [] input.direction = "down" -> ScrollAmount(input)
      [] OTHER -> 0

\* The browser call a tool handler awaits, with its arguments; method
\* "none" for a wait without condition, which awaits nothing.
HandlerCall(name, input) ==
    CASE name = "browser_snapshot" ->
            [method |-> "getSnapshot", interactive |-> Interactive(input)]
      [] name = "browser_click" -> [method |-> "click", target |-> input.target]
      [] name = "browser_fill" ->
            [method |-> "fill", target |-> input.target, value |-> input.value]
      [] name = "browser_type" ->
            [method |-> "pressSequentially", target |-> input.target,
             text |-> input.text]
      [] name = "browser_press" -> [method |-> "keyboard.press", key |-> input.key]
      [] name = "browser_scroll" ->
            [method |-> "evaluate", deltaX |-> ScrollDeltaX(input),
             deltaY |-> ScrollDeltaY(input)]
      [] name = "browser_wait" ->
            IF WaitMs(input) THEN [method |-> "waitForTimeout", ms |-> input.ms]
            ELSE IF WaitSelector(input)
                 THEN [method |-> "waitForSelector", selector |-> input.selector]
                 ELSE [method |-> "none"]

\* The browser method a tool handler awaits.
HandlerBrowserCall(name, input) == HandlerCall(name, input).method

\* What a tool handler gets from the session, at once, before anything it
\* awaits: a locator, the page, or nothing (the snapshot handler).
HandlerAccessor(name) ==
    CASE name \in {"browser_click", "browser_fill", "browser_type"} -> "getLocator"
      [] name \in {"browser_press", "browser_scroll", "browser_wait"} -> "getPage"
      [] OTHER -> "none"

\* A tool handler of createBrowserTools: it has no catch, so a session
\* accessor that throws or a browser call that rejects rejects the handler.
ToolHandler(name, input, out) ==
    IF ( \/ HandlerBrowserCall(name, input) # "none"
         \/ HandlerAccessor(name) # "none" ) /\ ~out.ok
    THEN Raised(out.message)
    ELSE Returned(HandlerText(name, input, out))

\* What the browser call of a request can do: resolve, a snapshot with the
\* tree of the page shown, or reject; none to choose when the request calls
\* no browser method.
OutcomesOn(call, pages) ==
    IF call.method = "none" THEN {NoCall}
    ELSE { [ok |-> TRUE,
            text |-> IF call.method \in {"snapshot", "getSnapshot"}
                     THEN SessionTree(pg, call.interactive) ELSE ""] :
                pg \in pages }
         \cup { [ok |-> FALSE, message |-> m] : m \in BrowserErrors }

\* The outcomes of a browser call while the session shows the one page.
OutcomesFor(call) == OutcomesOn(call, {page})

\* What a tool handler can meet on the pages shown: the outcomes of its
\* browser call; for a wait without condition, which gets the page and
\* awaits nothing, the accessor returning or throwing.
HandlerOutcomes(name, input, pages) ==
    IF HandlerBrowserCall(name, input) = "none" /\ HandlerAccessor(name) # "none"
    THEN {NoCall} \cup { [ok |-> FALSE, message |-> m] : m \in BrowserErrors }
    ELSE OutcomesOn(HandlerCall(name, input), pages)

\* --------------------------------------------------------------- state

AgentResult(success, summary, t) ==
    [kind |-> "result", success |-> success, summary |-> summary, turns |-> t]

\* One entry of the log of requests handed to the dispatcher, made when the
\* request settles: the request, the page shown when it was handed over,
\* the pages shown while it was under way, the browser call made and what
\* it did, and what the dispatcher gave back.
Dispatch(k, use, out, res) ==
    [turn |-> k, id |-> use.id, name |-> use.name, input |-> use.input,
     page |-> page, shown |-> {page},
     call |-> IF impl = "plan" THEN PlanCall(use.name, use.input)
              ELSE HandlerCall(use.name, use.input),
     failed |-> ~out.ok, out |-> out, res |-> res]

\* parked when no second call exists.
NoOtherCall == [pc |-> "absent"]

\* setup when the agent is already constructed.
NoSetup == [phase |-> "none"]

\* reply when the call was not made by the daemon's do handler.
NoReply == [kind |-> "none"]

\* After construction: the merged configuration is fixed, execute has not
\* been called.
Init ==
    /\ impl \in {"plan", "stream"}
    /\ maxTurns \in 1..MaxTurns
    /\ pc = "start"
    /\ turns = 0
    /\ messages = << >>
    /\ response = << >>
    /\ toolIdx = 0
    /\ toolResults = << >>
    /\ result = NoResult
    /\ lastAssistantMessage = << >>
    /\ sdk = "off"
    /\ pending = << >>
    /\ invocations = 0
    /\ dispatched = << >>
    /\ raised = 0
    /\ hist = << >>
    /\ expired = FALSE
    /\ parked = NoOtherCall
    /\ page = "p1"
    /\ setup = NoSetup
    /\ reply = NoReply
    /\ inflight = << >>

Running == pc \notin {"start", "returned", "thrown", "rejected"}

\* Return settling the result while the call stays where it is.
ReturnAndGoOn(r) ==
    /\ result' = r
    /\ pc' = pc

\* return r, in execute: the promise settles with r and the call is over.
Return(r) ==
    /\ result' = r
    /\ pc' = "returned"

\* ------------------------------------------- execute, the plan's loop

\* execute(instruction) up to the loop: the conversation holds the
\* instruction, the counter is 0.
PlanStart ==
    /\ pc = "start" /\ impl = "plan"
    /\ \E instruction \in Instructions :
          messages' = <<[role |-> "user", content |-> instruction]>>
    /\ turns' = 0
    /\ pc' = "loop"
    /\ UNCHANGED <<reply, inflight, setup, page, parked, impl, maxTurns,
                   response, toolIdx, toolResults, result,
                   lastAssistantMessage, sdk, pending, invocations,
                   dispatched, raised, hist, expired>>

\* PlanBudgetLeft with the comparison off by one.
PlanBudgetLeftInclusive == turns <= maxTurns

\* The loop's condition.
PlanBudgetLeft == turns < maxTurns

\* PlanExhausted reporting the last observation of the conversation.
PlanExhaustedLeaky ==
    LET batch == messages[Len(messages)].content
    IN  AgentResult(FALSE, batch[Len(batch)].content, turns)

\* The result after the loop.
PlanExhausted ==
    AgentResult(FALSE, <<"Task incomplete after ", ToString(maxTurns), " turns">>, turns)

\* The head of the while loop: count the turn and call the model, or leave
\* the loop with the budget's result.
PlanLoop ==
    /\ pc = "loop"
    /\ IF PlanBudgetLeft
       THEN /\ turns' = turns + 1
            /\ invocations' = invocations + 1
            /\ pc' = "await_model"
            /\ UNCHANGED result
       ELSE /\ Return(PlanExhausted)
            /\ UNCHANGED <<turns, invocations>>
    /\ UNCHANGED <<reply, inflight, setup, page, parked, impl, maxTurns,
                   messages, response, toolIdx, toolResults,
                   lastAssistantMessage, sdk, pending, dispatched, raised,
                   hist, expired>>

\* PlanTextResult dropping the model's text.
PlanTextResultNoText(content) == AgentResult(TRUE, <<"Completed">>, turns)

\* The result of a response without tool use.
PlanTextResult(content) ==
    LET texts == TextBlocksOf(content)
        text == IF Len(texts) = 0 THEN << >> ELSE texts[1].text
    IN  AgentResult(TRUE, OrElse(text, <<"Completed">>), turns)

\* The result of a done signal.
PlanDoneResult(use) == AgentResult(use.input.success, use.input.summary, turns)

\* IsDone honouring only a successful done.
IsDoneOnSuccess(use) == use.name = "done" /\ use.input.success

\* IsDone with the interception left out: done goes to executeTool.
IsDoneNever(use) == FALSE

\* Whether the for loop, at this tool use, returns instead of dispatching.
IsDone(use) == use.name = "done"

\* Appended leaving the observation batch out.
AppendedWithoutBatch(msgs, content, trs) ==
    Append(msgs, [role |-> "assistant", content |-> content])

\* Appended starting the conversation over from the latest turn.
AppendedInPlace(msgs, content, trs) ==
    << msgs[1],
       [role |-> "assistant", content |-> content],
       [role |-> "user", content |-> trs] >>

\* The conversation after the two pushes that close a turn: the model's
\* turn, then the observation batch.
Appended(msgs, content, trs) ==
    msgs \o << [role |-> "assistant", content |-> content],
               [role |-> "user", content |-> trs] >>

\* The for loop over toolUses from position i, with the observations trs
\* collected so far, up to its next suspension: a done signal returns, any
\* other request is handed to executeTool, and past the last request the
\* model's turn and the observations are appended to the conversation.
PlanFor(content, i, trs) ==
    LET uses == ToolUsesOf(content)
    IN  IF i > Len(uses)
        THEN /\ messages' = Appended(messages, content, trs)
             /\ pc' = "loop"
             /\ response' = << >>
             /\ toolIdx' = 0
             /\ toolResults' = << >>
             /\ UNCHANGED result
        ELSE IF IsDone(uses[i])
        THEN /\ Return(PlanDoneResult(uses[i]))
             /\ response' = content
             /\ toolIdx' = i
             /\ toolResults' = trs
             /\ UNCHANGED messages
        ELSE /\ pc' = "await_tool"
             /\ response' = content
             /\ toolIdx' = i
             /\ toolResults' = trs
             /\ UNCHANGED <<messages, result>>

\* messages.create resolves with a response.
PlanModelResponds ==
    /\ pc = "await_model"
    /\ \E content \in Contents(PlanRequests, PlanCore, turns) :
          /\ hist' = Append(hist, [type |-> "assistant", content |-> content])
          /\ IF Len(ToolUsesOf(content)) = 0
             THEN /\ Return(PlanTextResult(content))
                  /\ response' = content
                  /\ UNCHANGED <<messages, toolIdx, toolResults>>
             ELSE PlanFor(content, 1, << >>)
    /\ UNCHANGED <<reply, inflight, setup, page, parked, impl, maxTurns,
                   turns, lastAssistantMessage, sdk, pending, invocations,
                   dispatched, raised, expired>>

\* messages.create rejects: nothing in execute catches it, execute rejects.
PlanModelFails ==
    /\ pc = "await_model"
    /\ \E m \in ModelErrors :
          hist' = Append(hist, [type |-> "failure", message |-> m])
    /\ pc' = "thrown"
    /\ UNCHANGED <<reply, inflight, setup, page, parked, impl, maxTurns,
                   turns, messages, response, toolIdx, toolResults, result,
                   lastAssistantMessage, sdk, pending, invocations,
                   dispatched, raised, expired>>

\* Pushed putting the new observation before the earlier ones.
PushedFirst(trs, use, res) ==
    <<[type |-> "tool_result", tool_use_id |-> use.id, content |-> res.text]>> \o trs

\* toolResults after the push of the observation of one request.
Pushed(trs, use, res) ==
    Append(trs, [type |-> "tool_result", tool_use_id |-> use.id, content |-> res.text])

\* executeTool settles for the request at toolIdx: its text is pushed with
\* the request's id and the for loop goes on.
PlanToolReturns ==
    /\ pc = "await_tool"
    /\ LET use == ToolUsesOf(response)[toolIdx]
       IN  \E out \in OutcomesFor(PlanCall(use.name, use.input)) :
              LET res == ExecuteTool(use.name, use.input, out)
              IN  /\ dispatched' = Append(dispatched, Dispatch(turns, use, out, res))
                  /\ IF res.kind = "raised"
                     THEN /\ pc' = "thrown"
                          /\ raised' = raised + 1
                          /\ UNCHANGED <<messages, response, toolIdx,
                                         toolResults, result>>
                     ELSE /\ raised' = raised
                          /\ PlanFor(response, toolIdx + 1,
                                 Pushed(toolResults, use, res))
    /\ UNCHANGED <<reply, inflight, setup, page, parked, impl, maxTurns,
                   turns, lastAssistantMessage, sdk, pending, invocations,
                   hist, expired>>

\* ------------------------------------ execute, the streamed form

(* The query of the agent SDK is outside the repository.  What is taken of *)
(* it: it is given maxTurns and makes no more model invocations than that; *)
(* a successful invocation yields one assistant message; the tool uses of  *)
(* an assistant message are run through the handlers in order and followed *)
(* by a user message; a result message is the last message, its num_turns  *)
(* the number of model invocations; the stream may also end without one,   *)
(* or throw.  sdk is the phase of that protocol, pending the tool uses     *)
(* whose handler has not settled; in phase "handler" the handler of the    *)
(* first of them has been called.                                          *)

\* execute(instruction) up to the for-await: tools, server and query made.
StreamStart ==
    /\ pc = "start" /\ impl = "stream"
    /\ \E instruction \in Instructions :
          messages' = <<[role |-> "user", content |-> instruction]>>
    /\ turns' = 0
    /\ lastAssistantMessage' = << >>
    /\ pc' = "stream"
    /\ sdk' = "init"
    /\ UNCHANGED <<reply, inflight, setup, page, parked, impl, maxTurns,
                   response, toolIdx, toolResults, result, pending,
                   invocations, dispatched, raised, hist, expired>>

\* StreamLastText with a message without text blocks clearing the text.
StreamLastTextOfLatest(content) ==
    LET textBlocks == TextBlocksOf(content)
    IN  Join([i \in 1..Len(textBlocks) |-> textBlocks[i].text], "\n")

\* The for-await body on an assistant message: lastAssistantMessage after it.
StreamLastText(content) ==
    LET textBlocks == TextBlocksOf(content)
    IN  IF Len(textBlocks) > 0
        THEN Join([i \in 1..Len(textBlocks) |-> textBlocks[i].text], "\n")
        ELSE lastAssistantMessage

\* The turn counter after an assistant message.
StreamCount == turns + 1

\* An assistant message arrives.
StreamAssistant ==
    /\ pc = "stream" /\ sdk = "ready"
    /\ invocations < maxTurns
    /\ \E content \in Contents(StreamRequests, StreamCore, invocations + 1) :
          /\ hist' = Append(hist, [type |-> "assistant", content |-> content])
          /\ lastAssistantMessage' = StreamLastText(content)
          /\ pending' = ToolUsesOf(content)
          /\ sdk' = IF Len(ToolUsesOf(content)) = 0 THEN "final" ELSE "tools"
    /\ invocations' = invocations + 1
    /\ turns' = StreamCount
    /\ UNCHANGED <<reply, inflight, setup, page, parked, impl, maxTurns, pc,
                   messages, response, toolIdx, toolResults, result,
                   dispatched, raised, expired>>

\* A message that is neither an assistant nor a result message (the system
\* message that opens the stream, the user message that carries the tool
\* results): the for-await body does nothing.
StreamOther ==
    /\ pc = "stream" /\ sdk \in {"init", "results"}
    /\ hist' = Append(hist, [type |-> IF sdk = "init" THEN "system" ELSE "user"])
    /\ sdk' = IF sdk = "init" \/ invocations < maxTurns THEN "ready" ELSE "exhausted"
    /\ UNCHANGED <<reply, inflight, setup, page, parked, impl, maxTurns, pc,
                   turns, messages, response, toolIdx, toolResults, result,
                   lastAssistantMessage, pending, invocations, dispatched,
                   raised, expired>>

\* The SDK calls the handler of the first pending tool use: the handler
\* runs up to its await, the browser call is made and has not settled.
StreamToolCall ==
    /\ pc = "stream" /\ sdk = "tools" /\ Len(pending) > 0
    /\ sdk' = "handler"
    /\ UNCHANGED <<reply, inflight, setup, page, parked, impl, maxTurns, pc,
                   turns, messages, response, toolIdx, toolResults, result,
                   lastAssistantMessage, pending, invocations, dispatched,
                   raised, hist, expired>>

\* The browser call of the handler under way settles and the handler
\* settles with it.
StreamToolSettles ==
    /\ pc = "stream" /\ sdk = "handler"
    /\ LET use == Head(pending)
       IN  \E out \in HandlerOutcomes(use.name, use.input, {page}) :
              LET res == ToolHandler(use.name, use.input, out)
              IN  /\ dispatched' = Append(dispatched, Dispatch(turns, use, out, res))
                  /\ raised' = IF res.kind = "raised" THEN raised + 1 ELSE raised
    /\ pending' = Tail(pending)
    /\ sdk' = IF Len(pending) = 1 THEN "results" ELSE "tools"
    /\ UNCHANGED <<reply, inflight, setup, page, parked, impl, maxTurns, pc,
                   turns, messages, response, toolIdx, toolResults, result,
                   lastAssistantMessage, invocations, hist, expired>>

\* The result messages the SDK may close the stream with, in phase ph after
\* n model invocations: on success message.result is the last turn's text
\* or empty; an error result may or may not carry errors.
ResultMessages(ph, n, content) ==
    IF ph = "final"
    THEN LET texts == TextBlocksOf(content)
             text == IF Len(texts) = 0 THEN << >> ELSE texts[1].text
         IN  { [type |-> "result", subtype |-> "success", result |-> r,
                num_turns |-> n] : r \in {text, << >>} }
    ELSE { [type |-> "result", subtype |-> "error_max_turns", num_turns |-> n] }
         \cup { [type |-> "result", subtype |-> "error_max_turns",
                 num_turns |-> n, errors |-> e] :
                     e \in { << >>, << <<"Reached maximum number of turns">> >> } }

\* The for-await body on a result message.
StreamResultOf(message) ==
    IF message.subtype = "success"
    THEN AgentResult(TRUE,
             OrElse(message.result, OrElse(lastAssistantMessage, <<"Completed">>)),
             message.num_turns)
    ELSE AgentResult(FALSE,
             IF Has(message, "errors") THEN Join(message.errors, ", ")
             ELSE <<"Unknown error">>,
             message.num_turns)

\* The last assistant message of the stream so far.
LastContent ==
    LET idx == { i \in 1..Len(hist) : hist[i].type = "assistant" }
    IN  IF idx = {} THEN << >>
        ELSE hist[CHOOSE i \in idx : \A j \in idx : j <= i].content

\* A result message arrives: execute returns from inside the loop.
StreamResult ==
    /\ pc = "stream" /\ sdk \in {"final", "exhausted"}
    /\ \E message \in ResultMessages(sdk, invocations, LastContent) :
          /\ hist' = Append(hist, message)
          /\ Return(StreamResultOf(message))
    /\ sdk' = "closed"
    /\ UNCHANGED <<reply, inflight, setup, page, parked, impl, maxTurns,
                   turns, messages, response, toolIdx, toolResults,
                   lastAssistantMessage, pending, invocations, dispatched,
                   raised, expired>>

\* The model service fails and the SDK reports it in a result message.
StreamErrorResult ==
    /\ pc = "stream" /\ sdk = "ready"
    /\ invocations < maxTurns
    /\ invocations' = invocations + 1
    /\ \E m \in ModelErrors :
          LET message == [type |-> "result", subtype |-> "error_during_execution",
                          num_turns |-> invocations + 1, errors |-> << <<m>> >>]
          IN  /\ hist' = Append(hist, message)
              /\ Return(StreamResultOf(message))
    /\ sdk' = "closed"
    /\ UNCHANGED <<reply, inflight, setup, page, parked, impl, maxTurns,
                   turns, messages, response, toolIdx, toolResults,
                   lastAssistantMessage, pending, dispatched, raised,
                   expired>>

\* The result of the catch.
StreamCaught(m) == AgentResult(FALSE, <<"Error: ", m>>, turns)

\* The model service fails and the stream throws: the catch of execute.
StreamThrows ==
    /\ pc = "stream" /\ sdk = "ready"
    /\ invocations < maxTurns
    /\ invocations' = invocations + 1
    /\ \E m \in ModelErrors :
          /\ hist' = Append(hist, [type |-> "failure", message |-> m])
          /\ Return(StreamCaught(m))
    /\ sdk' = "closed"
    /\ UNCHANGED <<reply, inflight, setup, page, parked, impl, maxTurns,
                   turns, messages, response, toolIdx, toolResults,
                   lastAssistantMessage, pending, dispatched, raised,
                   expired>>

\* The result after the for-await.
StreamEndResult == AgentResult(TRUE, OrElse(lastAssistantMessage, <<"Completed">>), turns)

\* The stream ends without a result message.
StreamEnds ==
    /\ pc = "stream" /\ sdk \in {"ready", "final", "exhausted"}
    /\ hist' = Append(hist, [type |-> "end"])
    /\ Return(StreamEndResult)
    /\ sdk' = "closed"
    /\ UNCHANGED <<reply, inflight, setup, page, parked, impl, maxTurns,
                   turns, messages, response, toolIdx, toolResults,
                   lastAssistantMessage, pending, invocations, dispatched,
                   raised, expired>>

\* ------------------------------------------- the daemon's do command

\* !instruction || typeof instruction !== 'string'
MissingInstruction(instruction) == instruction = ""

\* The reply to a do command without instruction.
DoRejected ==
    [kind |-> "reply", success |-> FALSE, error |-> <<"Missing instruction">>]

\* reply while the do handler waits for execute.
DoAwaits == [kind |-> "awaited"]

\* The reply that wraps the AgentResult r.
DoReply(r) ==
    [kind |-> "reply", success |-> r.success,
     data |-> [summary |-> r.summary, turns |-> r.turns]]

\* The reply of the handler's catch, for an error with the message m.
DoCaught(m) == [kind |-> "reply", success |-> FALSE, error |-> <<m>>]

\* The message of the error execute rejected with.
ThrownMessage ==
    IF Len(hist) > 0 /\ hist[Len(hist)].type = "failure"
    THEN hist[Len(hist)].message
    ELSE dispatched[Len(dispatched)].res.message

\* The do handler of the daemon, in front of the plan's class, up to its
\* first suspension: a command without instruction is answered at once,
\* any other makes an agent and enters its execute.
DoCommand ==
    /\ pc = "start" /\ impl = "plan"
    /\ \E instruction \in Instructions :
          IF MissingInstruction(instruction)
          THEN /\ reply' = DoRejected
               /\ pc' = "rejected"
               /\ UNCHANGED <<messages, turns>>
          ELSE /\ messages' = <<[role |-> "user", content |-> instruction]>>
               /\ turns' = 0
               /\ pc' = "loop"
               /\ reply' = DoAwaits
    /\ UNCHANGED <<inflight, setup, page, parked, impl, maxTurns, response,
                   toolIdx, toolResults, result, lastAssistantMessage, sdk,
                   pending, invocations, dispatched, raised, hist, expired>>

\* The do handler after its await: the result of execute is wrapped into
\* the reply, a rejection of execute is caught and its message replied.
DoReplies ==
    /\ reply = DoAwaits
    /\ pc \in {"returned", "thrown"}
    /\ reply' = IF pc = "returned" THEN DoReply(result) ELSE DoCaught(ThrownMessage)
    /\ UNCHANGED <<inflight, setup, page, parked, impl, maxTurns, pc, turns,
                   messages, response, toolIdx, toolResults, result,
                   lastAssistantMessage, sdk, pending, invocations,
                   dispatched, raised, hist, expired>>

\* ------------------------------------------------------------ timeout

\* The configured timeout elapses during the call.  config.timeout is read
\* nowhere in execute, so nothing but the clock changes.
TimeoutElapses ==
    /\ Running /\ ~expired
    /\ expired' = TRUE
    /\ UNCHANGED <<reply, inflight, setup, page, parked, impl, maxTurns, pc,
                   turns, messages, response, toolIdx, toolResults, result,
                   lastAssistantMessage, sdk, pending, invocations,
                   dispatched, raised, hist>>

Next ==
    \/ PlanStart
    \/ PlanLoop
    \/ PlanModelResponds
    \/ PlanModelFails
    \/ PlanToolReturns
    \/ StreamStart
    \/ StreamAssistant
    \/ StreamOther
    \/ StreamToolCall
    \/ StreamToolSettles
    \/ StreamResult
    \/ StreamErrorResult
    \/ StreamThrows
    \/ StreamEnds
    \/ DoCommand
    \/ DoReplies
    \/ TimeoutElapses

Spec == Init /\ [][Next]_vars

\* The steps of a call that has begun: the code that runs when the promise
\* execute is suspended on settles, up to the next suspension.
CallSteps ==
    \/ PlanLoop
    \/ PlanModelResponds
    \/ PlanModelFails
    \/ PlanToolReturns
    \/ StreamAssistant
    \/ StreamOther
    \/ StreamToolCall
    \/ StreamToolSettles
    \/ StreamResult
    \/ StreamErrorResult
    \/ StreamThrows
    \/ StreamEnds

\* Every model invocation and every browser action settles, and the event
\* loop then runs the continuation that waits for it: a call that can take
\* a step does take one.
SpecFair == Spec /\ WF_vars(CallSteps)

\* ------------------------------------------- two calls at the same time

\* What one execute call owns: its locals, and what is recorded about it.
CallState ==
    [pc |-> pc, turns |-> turns, messages |-> messages, response |-> response,
     toolIdx |-> toolIdx, toolResults |-> toolResults, result |-> result,
     lastAssistantMessage |-> lastAssistantMessage, sdk |-> sdk,
     pending |-> pending, invocations |-> invocations,
     dispatched |-> dispatched, raised |-> raised, hist |-> hist,
     expired |-> expired]

\* A call that has not begun.
FreshCall ==
    [pc |-> "start", turns |-> 0, messages |-> << >>, response |-> << >>,
     toolIdx |-> 0, toolResults |-> << >>, result |-> NoResult,
     lastAssistantMessage |-> << >>, sdk |-> "off", pending |-> << >>,
     invocations |-> 0, dispatched |-> << >>, raised |-> 0, hist |-> << >>,
     expired |-> FALSE]

\* One agent with a budget of one turn, and two execute calls on it, neither
\* begun.
InitPair ==
    /\ impl \in {"plan", "stream"}
    /\ maxTurns = 1
    /\ pc = "start"
    /\ turns = 0
    /\ messages = << >>
    /\ response = << >>
    /\ toolIdx = 0
    /\ toolResults = << >>
    /\ result = NoResult
    /\ lastAssistantMessage = << >>
    /\ sdk = "off"
    /\ pending = << >>
    /\ invocations = 0
    /\ dispatched = << >>
    /\ raised = 0
    /\ hist = << >>
    /\ expired = FALSE
    /\ parked = FreshCall
    /\ page = "p1"
    /\ setup = NoSetup
    /\ reply = NoReply
    /\ inflight = << >>

\* ResumedTurns for a counter kept on the agent instead of in the call.
ResumedTurnsOfAgent == turns

\* The turn counter the resuming call goes on with: its own local.
ResumedTurns == parked.turns

\* The call that was running is suspended at its await and the other call
\* takes the next steps, with its own locals.
Switch ==
    /\ parked.pc \notin {"absent", "returned", "thrown", "rejected"}
    /\ parked' = CallState
    /\ pc' = parked.pc
    /\ turns' = ResumedTurns
    /\ messages' = parked.messages
    /\ response' = parked.response
    /\ toolIdx' = parked.toolIdx
    /\ toolResults' = parked.toolResults
    /\ result' = parked.result
    /\ lastAssistantMessage' = parked.lastAssistantMessage
    /\ sdk' = parked.sdk
    /\ pending' = parked.pending
    /\ invocations' = parked.invocations
    /\ dispatched' = parked.dispatched
    /\ raised' = parked.raised
    /\ hist' = parked.hist
    /\ expired' = parked.expired
    /\ UNCHANGED <<impl, maxTurns, page, setup, reply, inflight>>

\* The steps of two calls made on one agent.  The daemon's do handler makes
\* an agent of its own for every command, so neither call comes from it.
NextPair ==
    \/ PlanStart
    \/ PlanLoop
    \/ PlanModelResponds
    \/ PlanModelFails
    \/ PlanToolReturns
    \/ StreamStart
    \/ StreamAssistant
    \/ StreamOther
    \/ StreamToolCall
    \/ StreamToolSettles
    \/ StreamResult
    \/ StreamErrorResult
    \/ StreamThrows
    \/ StreamEnds
    \/ TimeoutElapses
    \/ Switch

SpecPair == InitPair /\ [][NextPair]_vars

\* ------------------------------------------- the dispatcher on its own

\* Most requests handed to the dispatcher in one run.
MaxDispatches == 2

\* The arguments {} of a request that gives none.
NoArgs == [f \in {} |-> 0]

Directions == {"up", "down", "left", "right"}

\* Arguments of snapshot, scroll and wait requests: every optional
\* argument absent, falsy, or with a value.
SnapshotInputs == { NoArgs, [fullPage |-> FALSE], [fullPage |-> TRUE] }

ScrollInputs ==
    { [direction |-> d] : d \in Directions }
    \cup { [direction |-> "down", amount |-> 0],
           [direction |-> "left", amount |-> 100] }

WaitInputs ==
    { NoArgs }
    \cup { [ms |-> m] : m \in {0, 250} }
    \cup { [selector |-> "#ready"] }
    \cup { [ms |-> m, selector |-> "#ready"] : m \in {0, 250} }

\* The name under which each form offers an action.
Named(base) ==
    IF impl = "plan" THEN base
    ELSE CASE base = "snapshot" -> "browser_snapshot"
           [] base = "scroll" -> "browser_scroll"
           [] base = "wait" -> "browser_wait"

\* The requests handed to the dispatcher, the n-th with the id <<0, n>>.
DispatcherRequests(n) ==
    { [type |-> "tool_use", id |-> <<0, n>>, name |-> Named(r[1]), input |-> r[2]] :
        r \in ({"snapshot"} \X SnapshotInputs)
              \cup ({"scroll"} \X ScrollInputs)
              \cup ({"wait"} \X WaitInputs) }

\* A dispatcher and a browser session showing some page; no call of
\* execute is under way.
InitDispatch ==
    /\ impl \in {"plan", "stream"}
    /\ maxTurns = 1
    /\ pc = "start"
    /\ turns = 0
    /\ messages = << >>
    /\ response = << >>
    /\ toolIdx = 0
    /\ toolResults = << >>
    /\ result = NoResult
    /\ lastAssistantMessage = << >>
    /\ sdk = "off"
    /\ pending = << >>
    /\ invocations = 0
    /\ dispatched = << >>
    /\ raised = 0
    /\ hist = << >>
    /\ expired = FALSE
    /\ parked = NoOtherCall
    /\ page \in Pages
    /\ setup = NoSetup
    /\ reply = NoReply
    /\ inflight = << >>

\* The request e, under way since some earlier step, once it has settled
\* with out and the dispatcher gave res back.
Settlement(e, out, res) ==
    [Dispatch(0, e.use, out, res) EXCEPT !.page = e.page, !.shown = e.shown]

\* s without its i-th element.
Without(s, i) == [k \in 1..(Len(s) - 1) |-> IF k < i THEN s[k] ELSE s[k + 1]]

\* The requests handed over so far, settled or not.
Handed == Len(dispatched) + Len(inflight)

\* A run exercises one action of the catalogue: the request asks for the
\* action the earlier requests of the run asked for.
SameAction(use) ==
    /\ \A k \in 1..Len(dispatched) : dispatched[k].name = use.name
    /\ \A k \in 1..Len(inflight) : inflight[k].use.name = use.name

\* executeTool is called with one request: it runs up to the await of its
\* browser call (or to its return, where it makes none) and its promise is
\* not settled yet.
PlanDispatch ==
    /\ impl = "plan" /\ Handed < MaxDispatches
    /\ \E use \in DispatcherRequests(Handed + 1) :
          /\ SameAction(use)
          /\ inflight' = Append(inflight, [use |-> use, page |-> page, shown |-> {page}])
    /\ UNCHANGED <<reply, setup, impl, maxTurns, pc, turns, messages,
                   response, toolIdx, toolResults, result,
                   lastAssistantMessage, sdk, pending, invocations,
                   dispatched, raised, hist, expired, parked, page>>

\* The browser call of a request under way settles, on a page shown since
\* the request was handed over, and executeTool settles with it.
PlanDispatchSettles ==
    /\ impl = "plan"
    /\ \E i \in 1..Len(inflight) :
          LET e == inflight[i]
          IN  \E out \in OutcomesOn(PlanCall(e.use.name, e.use.input), e.shown) :
                 /\ dispatched' = Append(dispatched,
                        Settlement(e, out, ExecuteTool(e.use.name, e.use.input, out)))
                 /\ inflight' = Without(inflight, i)
    /\ UNCHANGED <<reply, setup, impl, maxTurns, pc, turns, messages,
                   response, toolIdx, toolResults, result,
                   lastAssistantMessage, sdk, pending, invocations, raised,
                   hist, expired, parked, page>>

\* A tool handler of createBrowserTools is called with one request: it
\* runs up to the await of its browser call and is not settled yet.
HandlerDispatch ==
    /\ impl = "stream" /\ Handed < MaxDispatches
    /\ \E use \in DispatcherRequests(Handed + 1) :
          /\ SameAction(use)
          /\ inflight' = Append(inflight, [use |-> use, page |-> page, shown |-> {page}])
    /\ UNCHANGED <<reply, setup, impl, maxTurns, pc, turns, messages,
                   response, toolIdx, toolResults, result,
                   lastAssistantMessage, sdk, pending, invocations,
                   dispatched, raised, hist, expired, parked, page>>

\* The browser call of a handler under way settles, on a page shown since
\* the handler was called, and the handler settles with it.
HandlerDispatchSettles ==
    /\ impl = "stream"
    /\ \E i \in 1..Len(inflight) :
          LET e == inflight[i]
          IN  \E out \in HandlerOutcomes(e.use.name, e.use.input, e.shown) :
                 LET res == ToolHandler(e.use.name, e.use.input, out)
                 IN  /\ dispatched' = Append(dispatched, Settlement(e, out, res))
                     /\ raised' = IF res.kind = "raised" THEN raised + 1 ELSE raised
                     /\ inflight' = Without(inflight, i)
    /\ UNCHANGED <<reply, setup, impl, maxTurns, pc, turns, messages,
                   response, toolIdx, toolResults, result,
                   lastAssistantMessage, sdk, pending, invocations, hist,
                   expired, parked, page>>

\* The session comes to show another page; the requests under way have
\* been under way on it too.
PageChanges ==
    /\ Len(dispatched) < MaxDispatches
    /\ page' \in Pages \ {page}
    /\ inflight' = [i \in 1..Len(inflight) |->
                        [inflight[i] EXCEPT !.shown = @ \cup {page'}]]
    /\ UNCHANGED <<reply, setup, impl, maxTurns, pc, turns, messages,
                   response, toolIdx, toolResults, result,
                   lastAssistantMessage, sdk, pending, invocations,
                   dispatched, raised, hist, expired, parked>>

NextDispatch ==
    \/ PlanDispatch
    \/ PlanDispatchSettles
    \/ HandlerDispatch
    \/ HandlerDispatchSettles
    \/ PageChanges

SpecDispatch == InitDispatch /\ [][NextDispatch]_vars

\* ------------------------------------------------------ configuration

(* JavaScript values that a configuration field may hold are records: a   *)
(* number, NaN, or undefined.  A string that is parsed is the sequence of  *)
(* its UTF-16 code units, as numbers: "15" is <<49, 53>>.                  *)
Num(n) == [t |-> "number", v |-> n]

NaN == [t |-> "NaN"]

Undefined == [t |-> "undefined"]

\* "0" .. "9"
IsDigit(c) == c \in 48..57

DigitValue(c) == c - 48

\* The white space parseInt skips (StrWhiteSpaceChar): tab, line feed,
\* vertical tab, form feed, carriage return, space, no-break space, the
\* other space separators (U+1680, U+2000 to U+200A, U+202F, U+205F,
\* U+3000), the line and paragraph separators U+2028 and U+2029, and the
\* byte order mark U+FEFF.
WhiteSpace ==
    {9, 10, 11, 12, 13, 32, 160, 5760} \cup (8192..8202)
    \cup {8232, 8233, 8239, 8287, 12288, 65279}

RECURSIVE SkipSpaces(_)
\* s without its leading white space.
SkipSpaces(s) ==
    IF Len(s) > 0 /\ Head(s) \in WhiteSpace THEN SkipSpaces(Tail(s)) ELSE s

RECURSIVE LeadingDigits(_)
\* The longest prefix of s made of digits.
LeadingDigits(s) ==
    IF Len(s) > 0 /\ IsDigit(Head(s))
    THEN <<Head(s)>> \o LeadingDigits(Tail(s))
    ELSE << >>

RECURSIVE DecimalValue(_, _)
\* The number written by the digits ds, after the digits that gave acc.
DecimalValue(ds, acc) ==
    IF Len(ds) = 0 THEN acc
    ELSE DecimalValue(Tail(ds), 10 * acc + DigitValue(Head(ds)))

\* parseInt(s, 10): leading white space and a sign ("+" is 43, "-" is 45)
\* are skipped, the digits that follow are read, whatever comes after them
\* is ignored; NaN without any digit.
ParseInt(s) ==
    LET t == SkipSpaces(s)
        signed == Len(t) > 0 /\ Head(t) \in {43, 45}
        ds == LeadingDigits(IF signed THEN Tail(t) ELSE t)
    IN  IF Len(ds) = 0 THEN NaN
        ELSE IF signed /\ Head(t) = 45 THEN Num(0 - DecimalValue(ds, 0))
        ELSE Num(DecimalValue(ds, 0))

\* An environment variable: not set, or set to a string.
EnvUnset == [set |-> FALSE]

EnvSet(s) == [set |-> TRUE, value |-> s]

\* process.env.NAME || fallback
EnvOr(e, fallback) == IF e.set /\ Len(e.value) > 0 THEN e.value ELSE fallback

\* The values AGENT_BROWSER_MAX_TURNS may have when the process starts:
\* unset, "", "7", "20", "9" after a tab, a vertical tab and a no-break
\* space, "0", "abc".
MaxTurnsEnvs ==
    { EnvUnset, EnvSet(<< >>), EnvSet(<<55>>), EnvSet(<<50, 48>>),
      EnvSet(<<9, 11, 160, 57>>), EnvSet(<<48>>), EnvSet(<<97, 98, 99>>) }

\* DEFAULT_CONFIG, evaluated once when the module is loaded; the fallbacks
\* are '15' and '120000'.
DefaultConfig(env) ==
    [model |-> "sonnet",
     maxTurns |-> ParseInt(EnvOr(env, <<49, 53>>)),
     timeout |-> ParseInt(<<49, 50, 48, 48, 48, 48>>)]

\* The config argument of the constructor: none, or an object in which
\* maxTurns is left out, present without a value, or a number.
Configs ==
    { NoArgs,
      [model |-> "opus"],
      [maxTurns |-> Undefined],
      [model |-> "opus", maxTurns |-> Undefined],
      [maxTurns |-> Num(3)],
      [maxTurns |-> Num(0)] }

\* The strings --max-turns may carry: "15" (also when the option is not
\* given), "3", "abc".
CliMaxTurns == { <<49, 53>>, <<51>>, <<97, 98, 99>> }

\* The config the CLI's do command sends.
CliConfig(option) ==
    [model |-> "claude-sonnet-4-20250514", maxTurns |-> ParseInt(option)]

\* { ...defaults, ...config }: every key of config, whatever its value,
\* replaces the default.
Merged(defaults, config) ==
    [k \in DOMAIN defaults \cup DOMAIN config |->
        IF k \in DOMAIN config THEN config[k] ELSE defaults[k]]

\* The process has started with its environment; an agent is about to be
\* constructed, by a caller with a config of its own or by the CLI.
InitConfig ==
    /\ impl \in {"plan", "stream"}
    /\ maxTurns = 1
    /\ pc = "start"
    /\ turns = 0
    /\ messages = << >>
    /\ response = << >>
    /\ toolIdx = 0
    /\ toolResults = << >>
    /\ result = NoResult
    /\ lastAssistantMessage = << >>
    /\ sdk = "off"
    /\ pending = << >>
    /\ invocations = 0
    /\ dispatched = << >>
    /\ raised = 0
    /\ hist = << >>
    /\ expired = FALSE
    /\ parked = NoOtherCall
    /\ page = "p1"
    /\ \E env \in MaxTurnsEnvs :
          \/ setup = [phase |-> "cli", env |-> env]
          \/ \E config \in Configs :
                setup = [phase |-> "unbuilt", env |-> env, config |-> config]
    /\ reply = NoReply
    /\ inflight = << >>

\* The action of the CLI's do command, up to the command it sends.
CliDo ==
    /\ setup.phase = "cli"
    /\ \E option \in CliMaxTurns :
          setup' = [phase |-> "unbuilt", env |-> setup.env,
                    config |-> CliConfig(option)]
    /\ UNCHANGED <<impl, maxTurns, pc, turns, messages, response, toolIdx,
                   toolResults, result, lastAssistantMessage, sdk, pending,
                   invocations, dispatched, raised, hist, expired, parked,
                   page, reply, inflight>>

\* new BrowserAgent(browser, config): this.config is the merge.
Construct ==
    /\ setup.phase = "unbuilt"
    /\ setup' = [phase |-> "built", env |-> setup.env,
                 config |-> setup.config,
                 merged |-> Merged(DefaultConfig(setup.env), setup.config)]
    /\ UNCHANGED <<impl, maxTurns, pc, turns, messages, response, toolIdx,
                   toolResults, result, lastAssistantMessage, sdk, pending,
                   invocations, dispatched, raised, hist, expired, parked,
                   page, reply, inflight>>

NextConfig == CliDo \/ Construct

SpecConfig == InitConfig /\ [][NextConfig]_vars

\* -------------------------------------------------------------- claims

\* The positions of the model's responses in hist.
AssistantIdx == { i \in 1..Len(hist) : hist[i].type = "assistant" }

\* The number of responses the model has given.
Responses == Cardinality(AssistantIdx)

\* The tool uses of the model's latest response.
LastUses == ToolUsesOf(LastContent)

\* The text of the model's latest response.
LastText ==
    LET texts == TextBlocksOf(LastContent)
    IN  IF Len(texts) = 0 THEN << >> ELSE texts[1].text

DonePositions(uses) == { i \in 1..Len(uses) : uses[i].name = "done" }

HasDone(uses) == DonePositions(uses) # {}

FirstDone(uses) == CHOOSE i \in DonePositions(uses) : \A j \in DonePositions(uses) : i <= j

\* The tool uses of the response of turn k (plan: hist[k] is turn k's response).
UsesOfTurn(k) == ToolUsesOf(hist[k].content)

\* The entries of the dispatch log that belong to turn k, in order.
DispatchedIn(k) == SelectSeq(dispatched, LAMBDA d : d.turn = k)

\* The model failed at its latest invocation.
ModelFailed == Len(hist) > 0 /\ hist[Len(hist)].type = "failure"

\* C1: the turns of every returned AgentResult lie between 0 and the
\* configured maxTurns, whatever the model and the browser did.
C1_TurnsWithinBudget ==
    pc = "returned" => (0 <= result.turns /\ result.turns <= maxTurns)

\* C1's case: a call of the plan's loop that used its whole budget of more
\* than one turn.
C1_Witness ==
    /\ pc = "returned" /\ impl = "plan"
    /\ maxTurns > 1 /\ result.turns = maxTurns
    /\ Len(dispatched) > 0

\* C2: when the response of turn k carries a done signal, execute returns
\* exactly that signal's success and summary with turns = k; done is never
\* handed to the dispatcher, nor is any request placed after it.
C2_DoneResult ==
    /\ \A j \in 1..Len(dispatched) :
          /\ dispatched[j].name # "done"
          /\ impl = "plan" =>
                \A i \in DonePositions(UsesOfTurn(dispatched[j].turn)) :
                    dispatched[j].id[2] < i
    /\ (pc = "returned" /\ impl = "plan" /\ ~ModelFailed /\ HasDone(LastUses)) =>
          LET done == LastUses[FirstDone(LastUses)]
          IN  result = [kind |-> "result", success |-> done.input.success,
                        summary |-> done.input.summary, turns |-> Len(hist)]

\* C2's case: on the second turn, a done signal followed by another request.
C2_Witness ==
    /\ pc = "returned" /\ impl = "plan" /\ Len(hist) = 2
    /\ Len(LastUses) = 2 /\ LastUses[1].name = "done" /\ LastUses[2].name = "click"
    /\ result.summary = <<"S">>

\* C3 as stated: no request of a batch that holds a done signal is ever
\* dispatched, those placed before the signal included.
C3_NoSiblingDispatched ==
    impl = "plan" =>
        \A j \in 1..Len(dispatched) : ~HasDone(UsesOfTurn(dispatched[j].turn))

\* C3 as amended: from a batch that holds a done signal, exactly the
\* requests placed before the first done are dispatched, in batch order,
\* and none placed after it.
C3_PrefixBeforeDone ==
    (pc = "returned" /\ impl = "plan" /\ ~ModelFailed /\ HasDone(LastUses)) =>
        LET k == Len(hist)
            sent == DispatchedIn(k)
        IN  /\ Len(sent) = FirstDone(LastUses) - 1
            /\ \A j \in 1..Len(sent) : sent[j].id = <<k, j>>

\* C3's case: a batch with a request before its done signal has returned.
C3_Witness ==
    /\ pc = "returned" /\ impl = "plan"
    /\ Len(LastUses) = 2 /\ LastUses[1].name = "click" /\ LastUses[2].name = "done"
    /\ Len(DispatchedIn(Len(hist))) = 1

\* Every response so far asked for tools and none held a done signal, no
\* invocation failed, and the streamed form was closed by the SDK's result
\* message rather than cut short.
NeverTerminal ==
    /\ \A i \in AssistantIdx :
          LET uses == ToolUsesOf(hist[i].content)
          IN  Len(uses) > 0 /\ ~HasDone(uses)
    /\ \A i \in 1..Len(hist) :
          /\ hist[i].type \notin {"failure", "end"}
          /\ hist[i].type = "result" => hist[i].subtype = "error_max_turns"

\* A summary that says the turn budget was used up.
StatesBudget(summary) ==
    \E i \in 1..Len(summary) :
        summary[i] \in {"Task incomplete after ", "Reached maximum number of turns"}

\* C4 as stated: without a terminal signal execute makes exactly maxTurns
\* model invocations and no more, dispatches the requests of the last
\* turn, and returns success = false, turns = maxTurns and a summary that
\* says the turn budget was exceeded.
C4_BudgetExhaustion ==
    /\ invocations <= maxTurns
    /\ (pc = "returned" /\ NeverTerminal) =>
          /\ invocations = maxTurns
          /\ Responses = maxTurns
          /\ Len(DispatchedIn(maxTurns)) = Len(LastUses)
          /\ result.success = FALSE
          /\ result.turns = maxTurns
          /\ StatesBudget(result.summary)

\* C5 as stated: a failed browser action never leaves the dispatcher as an
\* error: its observation is text that begins with "Error: ", and execute
\* is not aborted by it.
C5_FailureBecomesObservation ==
    /\ raised = 0
    /\ \A j \in 1..Len(dispatched) :
          dispatched[j].failed =>
              /\ dispatched[j].res.kind = "returned"
              /\ dispatched[j].res.text[1] = "Error: "
    /\ pc = "thrown" => ModelFailed

\* The model service failed at the latest invocation, however the failure
\* was reported.
ServiceFailed ==
    /\ Len(hist) > 0
    /\ \/ hist[Len(hist)].type = "failure"
       \/ /\ hist[Len(hist)].type = "result"
          /\ hist[Len(hist)].subtype = "error_during_execution"

\* The error message of the latest failure.
FailureMessage ==
    IF hist[Len(hist)].type = "failure" THEN hist[Len(hist)].message
    ELSE hist[Len(hist)].errors[1][1]

\* C6 as stated: execute never throws; a failure of the model service ends
\* the call at once with success = false and a summary that carries the
\* error.
C6_ModelFailureIsResult ==
    /\ pc # "thrown"
    /\ ServiceFailed =>
          /\ pc = "returned"
          /\ result.success = FALSE
          /\ \E i \in 1..Len(result.summary) : result.summary[i] = FailureMessage

\* C7 as stated: a call during which the configured timeout elapsed ends
\* Failed, with a summary that names the timeout.
C7_TimeoutFails ==
    (pc = "returned" /\ expired) =>
        /\ result.success = FALSE
        /\ \E i \in 1..Len(result.summary) :
              result.summary[i] \in {"timeout", "timed out", "Timed out"}

\* The model's latest response is free text: no tool use and a text that
\* is not empty, and the model service did not fail after it.
FreeTextTurn ==
    /\ AssistantIdx # {}
    /\ Len(LastUses) = 0
    /\ Truthy(LastText)
    /\ ~ServiceFailed

\* C8: when the response of turn k is free text without any request, the
\* result is success = true, that text as summary and turns = k, and no
\* request is dispatched on turn k.
C8_FreeTextResult ==
    (pc = "returned" /\ FreeTextTurn) =>
        /\ result = [kind |-> "result", success |-> TRUE,
                     summary |-> LastText, turns |-> Responses]
        /\ DispatchedIn(Responses) = << >>

\* C8's case: free text on the second turn, after a turn that dispatched.
C8_Witness ==
    /\ pc = "returned" /\ impl = "plan" /\ FreeTextTurn
    /\ Responses = 2 /\ Len(dispatched) > 0
    /\ result.summary = <<"T1">>

\* C9 as stated: on every exit path the turns of the result equal the
\* number of model invocations made, the failed one included.
C9_TurnsCountInvocations ==
    pc = "returned" => result.turns = invocations

RECURSIVE PlanOutcome(_, _, _)
\* What the plan's loop returns for the responses h from turn k on, read
\* off the responses and the budget alone.
PlanOutcome(h, k, budget) ==
    IF k > budget
    THEN [kind |-> "result", success |-> FALSE,
          summary |-> <<"Task incomplete after ", ToString(budget), " turns">>,
          turns |-> budget]
    ELSE IF k > Len(h) \/ h[k].type # "assistant" THEN NoResult
    ELSE LET uses == ToolUsesOf(h[k].content)
             texts == TextBlocksOf(h[k].content)
         IN  IF Len(uses) = 0
             THEN [kind |-> "result", success |-> TRUE,
                   summary |-> IF Len(texts) > 0 /\ Len(texts[1].text) > 0
                               THEN texts[1].text ELSE <<"Completed">>,
                   turns |-> k]
             ELSE IF HasDone(uses)
             THEN [kind |-> "result",
                   success |-> uses[FirstDone(uses)].input.success,
                   summary |-> uses[FirstDone(uses)].input.summary,
                   turns |-> k]
             ELSE PlanOutcome(h, k + 1, budget)

RECURSIVE StreamOutcome(_, _, _)
\* What the streamed form returns for the messages h, read off the messages
\* alone: n assistant messages seen so far, last the latest text.
StreamOutcome(h, n, last) ==
    IF Len(h) = 0 THEN NoResult
    ELSE LET m == Head(h)
         IN  CASE m.type = "assistant" ->
                    LET texts == TextBlocksOf(m.content)
                    IN  StreamOutcome(Tail(h), n + 1,
                            IF Len(texts) > 0
                            THEN Join([i \in 1..Len(texts) |-> texts[i].text], "\n")
                            ELSE last)
               [] m.type = "result" ->
                    IF m.subtype = "success"
                    THEN [kind |-> "result", success |-> TRUE,
                          summary |-> IF Len(m.result) > 0 THEN m.result
                                      ELSE IF Len(last) > 0 THEN last
                                      ELSE <<"Completed">>,
                          turns |-> m.num_turns]
                    ELSE [kind |-> "result", success |-> FALSE,
                          summary |-> IF "errors" \in DOMAIN m
                                      THEN Join(m.errors, ", ")
                                      ELSE <<"Unknown error">>,
                          turns |-> m.num_turns]
               [] m.type = "end" ->
                    [kind |-> "result", success |-> TRUE,
                     summary |-> IF Len(last) > 0 THEN last ELSE <<"Completed">>,
                     turns |-> n]
               [] m.type = "failure" ->
                    [kind |-> "result", success |-> FALSE,
                     summary |-> <<"Error: ", m.message>>, turns |-> n]
               [] OTHER -> StreamOutcome(Tail(h), n, last)

\* C10: the AgentResult is a function of the model service's responses
\* (and the budget) alone: whatever trees and action outcomes the browser
\* gave, the result is the one read off the responses, so two calls with
\* the same responses return the same result and no observation reaches
\* the caller.
C10_ResultFromResponsesOnly ==
    pc = "returned" =>
        result = IF impl = "plan" THEN PlanOutcome(hist, 1, maxTurns)
                 ELSE StreamOutcome(hist, 0, << >>)

\* C10's case: a call that returned after the browser failed one request
\* and served another.
C10_Witness ==
    /\ pc = "returned" /\ impl = "plan"
    /\ \E i, j \in 1..Len(dispatched) :
          dispatched[i].failed /\ ~dispatched[j].failed
    /\ result.success = FALSE /\ result.turns = 2

\* The observation batch appended after turn k (plan: the conversation is
\* the instruction, then a model turn and a batch per completed turn).
BatchOf(k) == messages[2 * k + 1].content

\* The turns whose model turn and batch are in the conversation.
AppendedTurns == { k \in 1..turns : 2 * k + 1 <= Len(messages) }

\* C11: within one model turn the requests are dispatched in the order
\* received, each started only when all before it have settled and left
\* their observation, and the batch appended to the conversation holds one
\* observation per dispatched request, with its id and text, in that order.
C11_InOrderOneAtATime ==
    impl = "plan" =>
        /\ \A j \in 1..Len(dispatched) : dispatched[j].turn \in AssistantIdx
        /\ \A k \in AssistantIdx :
              LET sent == DispatchedIn(k)
              IN  /\ Len(sent) <= Len(UsesOfTurn(k))
                  /\ \A j \in 1..Len(sent) : sent[j].id = UsesOfTurn(k)[j].id
        /\ pc = "await_tool" =>
              /\ toolIdx = Len(DispatchedIn(turns)) + 1
              /\ Len(toolResults) = toolIdx - 1
        /\ \A k \in AppendedTurns :
              LET sent == DispatchedIn(k)
                  batch == BatchOf(k)
              IN  /\ Len(batch) = Len(sent)
                  /\ \A j \in 1..Len(sent) :
                        /\ batch[j].tool_use_id = sent[j].id
                        /\ batch[j].content = sent[j].res.text

\* C11's case: a batch of two requests, the first failed and the second
\* served, is in the conversation.
C11_Witness ==
    /\ impl = "plan" /\ Len(messages) >= 3
    /\ Len(BatchOf(1)) = 2
    /\ dispatched[1].failed /\ ~dispatched[2].failed
    /\ BatchOf(1)[1].content[1] = "Error: "

\* C12: the model is invoked for a turn only when every request of every
\* earlier turn has settled and each earlier turn's response and batch are
\* in the conversation: the conversation handed to invocation N+1 is the
\* instruction and, for each k in 1..N, the response of turn k followed by
\* one observation per request of turn k.  While a request is in flight no
\* invocation is outstanding.
C12_TurnsDoNotOverlap ==
    impl = "plan" =>
        /\ pc = "await_tool" => invocations = Len(hist)
        /\ pc = "await_model" =>
              /\ invocations = Len(hist) + 1
              /\ Len(messages) = 2 * (turns - 1) + 1
              /\ \A k \in 1..(turns - 1) :
                    /\ messages[2 * k] =
                          [role |-> "assistant", content |-> hist[k].content]
                    /\ messages[2 * k + 1].role = "user"
                    /\ Len(DispatchedIn(k)) = Len(UsesOfTurn(k))
                    /\ Len(BatchOf(k)) = Len(UsesOfTurn(k))
                    /\ \A j \in 1..Len(BatchOf(k)) :
                          /\ BatchOf(k)[j].tool_use_id = UsesOfTurn(k)[j].id
                          /\ BatchOf(k)[j].content = DispatchedIn(k)[j].res.text

\* C12's case: the model is being invoked for turn 2 after a turn of two
\* requests.
C12_Witness ==
    /\ impl = "plan" /\ pc = "await_model" /\ turns = 2
    /\ Len(UsesOfTurn(1)) = 2 /\ Len(BatchOf(1)) = 2

\* The call was given the empty instruction.
EmptyInstruction == Len(messages) > 0 /\ messages[1].content = ""

\* C13 as stated: a call with an empty instruction fails before any model
\* invocation and before any browser action: execute never gets as far as
\* invoking the model or dispatching a request with it.
C13_EmptyInstructionFailsFast ==
    EmptyInstruction =>
        /\ invocations = 0
        /\ dispatched = << >>

\* The model's latest response holds nothing at all, neither a request nor
\* a text block, and the model service did not fail after it.
EmptyTurn ==
    /\ AssistantIdx # {}
    /\ LastContent = << >>
    /\ ~ServiceFailed

\* C14 as stated: when the response of turn k holds no request and no text
\* at all, the result is success = true with the summary "Completed" and
\* turns = k.
C14_EmptyTurnCompleted ==
    (pc = "returned" /\ EmptyTurn) =>
        result = [kind |-> "result", success |-> TRUE,
                  summary |-> <<"Completed">>, turns |-> Responses]

\* C15: a request whose name is outside the catalogue calls no browser
\* method and is answered with the observation "Unknown tool: <name>";
\* it does not end the call: the loop goes on with the next request or the
\* next turn, and a call that returns on that turn does so for a done
\* signal later in the batch or for the budget.
C15_UnknownToolObserved ==
    impl = "plan" =>
        /\ \A j \in 1..Len(dispatched) :
              dispatched[j].name \notin Catalogue =>
                  /\ dispatched[j].call.method = "none"
                  /\ dispatched[j].res =
                        [kind |-> "returned",
                         text |-> <<"Unknown tool: ", dispatched[j].name>>]
        /\ ( /\ Len(dispatched) > 0
             /\ dispatched[Len(dispatched)].name \notin Catalogue
             /\ dispatched[Len(dispatched)].turn = turns ) =>
                  /\ pc = "thrown" => ModelFailed
                  /\ pc = "returned" =>
                        \/ HasDone(UsesOfTurn(turns))
                        \/ result.summary[1] = "Task incomplete after "

\* C15's case: the model is invoked for a second turn after a turn whose
\* request had a name outside the catalogue.
C15_Witness ==
    /\ impl = "plan" /\ pc = "await_model" /\ turns = 2
    /\ dispatched[1].name = "hover"
    /\ BatchOf(1)[1].content = <<"Unknown tool: ", "hover">>

\* The number of responses the model gave a call.
ResponsesOf(s) ==
    Cardinality({ i \in 1..Len(s.hist) : s.hist[i].type = "assistant" })

\* The turns of a call's result count its own invocations: at least those
\* that were answered, at most those that were made.
OwnTurns(s) ==
    s.pc = "returned" =>
        /\ ResponsesOf(s) <= s.result.turns
        /\ s.result.turns <= s.invocations

\* A call's conversation is its own instruction followed, turn by turn, by
\* a response the model gave that call and the observations of the requests
\* dispatched for that call.
OwnConversation(s) ==
    (impl = "plan" /\ Len(s.messages) > 0) =>
        /\ s.messages[1].role = "user"
        /\ s.messages[1].content \in Instructions
        /\ \A k \in 1..s.turns :
              2 * k + 1 <= Len(s.messages) =>
                  LET sent == SelectSeq(s.dispatched, LAMBDA d : d.turn = k)
                      batch == s.messages[2 * k + 1].content
                  IN  /\ s.messages[2 * k] =
                            [role |-> "assistant", content |-> s.hist[k].content]
                      /\ Len(batch) = Len(sent)
                      /\ \A j \in 1..Len(sent) :
                            /\ batch[j].tool_use_id = sent[j].id
                            /\ batch[j].content = sent[j].res.text

\* C16: of two execute calls that interleave at their awaits, each keeps
\* its own conversation and its own turn counter: the turns of each result
\* count that call's invocations only, and each conversation holds only
\* responses given to, and observations made for, its own call.
C16_CallsAreIsolated ==
    parked.pc # "absent" =>
        /\ OwnTurns(CallState) /\ OwnTurns(parked)
        /\ OwnConversation(CallState) /\ OwnConversation(parked)
        /\ turns <= invocations /\ parked.turns <= parked.invocations

\* C16's case: both calls are under way at once: one has closed a turn
\* and appended it to its conversation while the other waits for a browser
\* action of its own first turn.
C16_Witness ==
    /\ impl = "plan"
    /\ pc = "loop" /\ Len(messages) = 3 /\ turns = 1
    /\ parked.pc = "await_tool" /\ Len(parked.messages) = 1 /\ parked.turns = 1
    /\ parked.hist[1] # hist[1]

\* The entries of the dispatch log for the action base, whatever the form.
Logged(base) ==
    { i \in 1..Len(dispatched) :
        dispatched[i].name \in {base, "browser_" \o base} }

\* C17: a snapshot request is answered with the tree the session returned,
\* verbatim, asked for as interactive-only unless fullPage is true; so two
\* dispatches of the same snapshot request, both served while the session
\* showed one and the same page throughout, give the same observation.
C17_SnapshotIdempotent ==
    /\ \A i \in Logged("snapshot") :
          LET d == dispatched[i]
          IN  /\ d.call.interactive =
                    ~(Has(d.input, "fullPage") /\ d.input.fullPage = TRUE)
              /\ ~d.failed =>
                    /\ \E pg \in d.shown :
                          d.out.text = SessionTree(pg, d.call.interactive)
                    /\ d.res = [kind |-> "returned", text |-> <<d.out.text>>]
    /\ \A i, j \in Logged("snapshot") :
          ( /\ dispatched[i].input = dispatched[j].input
            /\ Cardinality(dispatched[i].shown) = 1
            /\ dispatched[i].shown = dispatched[j].shown
            /\ ~dispatched[i].failed /\ ~dispatched[j].failed ) =>
                dispatched[i].res = dispatched[j].res

\* C17's case: the same snapshot request with fullPage true was served
\* twice, the session showing the same page all the while.
C17_Witness ==
    /\ Len(dispatched) = 2 /\ Logged("snapshot") = {1, 2}
    /\ dispatched[1].input = [fullPage |-> TRUE]
    /\ dispatched[2].input = [fullPage |-> TRUE]
    /\ dispatched[1].shown = dispatched[2].shown
    /\ Cardinality(dispatched[1].shown) = 1
    /\ ~dispatched[1].failed /\ ~dispatched[2].failed
    /\ dispatched[2].res.text = <<"- heading\n- button [ref=e1]">>

\* The pixels the claim has a scroll request move by: the amount supplied,
\* the default when none is.
StatedAmount(input) ==
    IF Has(input, "amount") THEN input.amount ELSE DefaultScrollAmount

\* C18 as stated: a scroll request moves the viewport by the supplied
\* amount on one axis (up: dy = -amount, down: dy = amount, left:
\* dx = -amount, right: dx = amount, the other delta 0), its confirmation
\* names the direction and that amount, and 500 is used only when no amount
\* is supplied.
C18_ScrollByAmount ==
    \A i \in Logged("scroll") :
        LET d == dispatched[i]
            dir == d.input.direction
            a == StatedAmount(d.input)
        IN  /\ d.call.method = "evaluate" =>
                  /\ d.call.deltaX = (IF dir = "left" THEN 0 - a
                                      ELSE IF dir = "right" THEN a ELSE 0)
                  /\ d.call.deltaY = (IF dir = "up" THEN 0 - a
                                      ELSE IF dir = "down" THEN a ELSE 0)
            /\ d.call.method = "scroll" =>
                  /\ d.call.direction = dir
                  /\ d.call.amount = a
            /\ ~d.failed =>
                  d.res = [kind |-> "returned",
                           text |-> <<"Scrolled ", dir, " ", ToString(a), "px">>]

\* C19 as stated: a wait request makes at most one wait: a pause of ms
\* whenever ms is supplied, with or without a selector; else a wait for
\* the selector when one is supplied; and the observation "No wait
\* condition specified", with no browser call, exactly when neither is
\* supplied.
C19_WaitOnce ==
    \A i \in Logged("wait") :
        LET d == dispatched[i]
            ms == Has(d.input, "ms")
            selector == Has(d.input, "selector")
        IN  /\ ms =>
                  /\ \/ d.call = [method |-> "waitForTimeout", ms |-> d.input.ms]
                     \/ d.call = [method |-> "none", timer |-> d.input.ms]
                  /\ ~d.failed =>
                        d.res.text = <<"Waited ", ToString(d.input.ms), "ms">>
            /\ (~ms /\ selector) =>
                  d.call = [method |-> "waitForSelector",
                            selector |-> d.input.selector]
            /\ (~ms /\ ~selector) <=>
                  /\ d.call = [method |-> "none"]
                  /\ ~d.failed =>
                        d.res = [kind |-> "returned",
                                 text |-> <<"No wait condition specified">>]

IsPrefix(a, b) == Len(a) <= Len(b) /\ SubSeq(b, 1, Len(a)) = a

\* The turns that were completed without ending the call: the response
\* asked for actions, held no done signal, and all of them have settled.
CompletedTurns ==
    { k \in AssistantIdx :
        /\ Len(UsesOfTurn(k)) > 0
        /\ ~HasDone(UsesOfTurn(k))
        /\ Len(DispatchedIn(k)) = Len(UsesOfTurn(k)) }

\* The conversation is the instruction followed by one pair of model turn
\* and observation batch per completed turn, and nothing else.
ConversationShape ==
    (impl = "plan" /\ pc \notin {"start", "rejected"}) =>
        /\ Len(messages) = 2 * Cardinality(CompletedTurns) + 1
        /\ messages[1].role = "user"
        /\ messages[1].content \in Instructions
        /\ \A k \in CompletedTurns :
              /\ messages[2 * k].role = "assistant"
              /\ messages[2 * k].content = hist[k].content
              /\ messages[2 * k + 1].role = "user"
              /\ \A j \in 1..Len(BatchOf(k)) :
                    BatchOf(k)[j].type = "tool_result"

\* One step of the call leaves the conversation a prefix of what it
\* becomes, and the step that ends the call leaves it as it is.
ConversationGrows ==
    impl = "plan" =>
        /\ IsPrefix(messages, messages')
        /\ (pc' \in {"returned", "thrown"} /\ pc # "start") =>
              messages' = messages

\* C20: during one execute call the conversation is append-only: it
\* starts as the instruction alone, every state of it is a prefix of every
\* later one, after n completed non-terminal turns it is the instruction
\* followed by n pairs of model turn and observation batch, and a terminal
\* turn appends nothing.
C20_AppendOnly == []ConversationShape /\ [][ConversationGrows]_vars

\* C20's case: a call that ended on its second turn with a done signal,
\* its conversation still the instruction and the pair of the first turn.
C20_Witness ==
    /\ impl = "plan" /\ pc = "returned" /\ turns = 2
    /\ HasDone(LastUses)
    /\ Len(messages) = 3 /\ CompletedTurns = {1}

\* The caller supplied a maxTurns of its own.
SuppliesMaxTurns(config) ==
    Has(config, "maxTurns") /\ config.maxTurns # Undefined

\* C21 as stated: the effective maxTurns is the caller's when the caller
\* supplies one, otherwise the process-wide default (15 unless the
\* environment sets it); a config that leaves maxTurns unset does not
\* displace the default; the effective maxTurns is a positive integer.
C21_EffectiveMaxTurns ==
    setup.phase = "built" =>
        LET effective == setup.merged.maxTurns
        IN  /\ SuppliesMaxTurns(setup.config) =>
                  effective = setup.config.maxTurns
            /\ ~SuppliesMaxTurns(setup.config) =>
                  effective = IF setup.env.set /\ Len(setup.env.value) > 0
                              THEN ParseInt(setup.env.value) ELSE Num(15)
            /\ effective.t = "number"
            /\ effective.v > 0

\* The execute call has reached a terminal condition: its result is
\* settled, or it has thrown.
Settled == result # NoResult \/ pc \in {"returned", "thrown"}

\* C22: once an execute call has reached a terminal condition, its outcome
\* stays as it is and the call makes no further model invocation and no
\* further browser action.
C22_TerminalAbsorbing ==
    [][Settled => /\ Settled'
                  /\ result' = result
                  /\ pc' = pc
                  /\ invocations' = invocations
                  /\ dispatched' = dispatched]_vars

\* C22 witness: a call that returned after a model invocation and a browser
\* action, with turns of its budget left.
C22_Witness ==
    /\ pc = "returned"
    /\ result # NoResult
    /\ invocations >= 1
    /\ invocations < maxTurns
    /\ Len(dispatched) >= 1

\* C23 as stated: when every model invocation and every browser action
\* settles, an execute call that has begun eventually returns an
\* AgentResult, having made at most maxTurns model invocations.
C23_EventuallyReturns ==
    Running ~> (/\ pc = "returned"
                /\ result # NoResult
                /\ invocations <= maxTurns)

\* The joined text of the text blocks of the assistant message at i.
JoinedText(i) ==
    LET textBlocks == TextBlocksOf(hist[i].content)
    IN  Join([k \in 1..Len(textBlocks) |-> textBlocks[k].text], "\n")

\* The assistant messages that carry a text block, and those whose text is
\* not empty.
WithTextBlock == { i \in AssistantIdx : Len(TextBlocksOf(hist[i].content)) > 0 }

WithText == { i \in AssistantIdx : Truthy(JoinedText(i)) }

\* The joined text of the latest message among idx, "Completed" without any.
TextOfLatest(idx) ==
    IF idx = {} THEN <<"Completed">>
    ELSE JoinedText(CHOOSE i \in idx : \A j \in idx : j <= i)

\* The streamed call is over and the stream ended without a result message.
EndedWithoutResult ==
    /\ impl = "stream" /\ pc = "returned"
    /\ hist[Len(hist)].type = "end"

\* The streamed call is over by a result message that is not a success.
EndedByErrorResult ==
    /\ impl = "stream" /\ pc = "returned"
    /\ hist[Len(hist)].type = "result"
    /\ hist[Len(hist)].subtype # "success"

\* C24 as stated: when the stream ends without a result message the result
\* is success = true, turns the number of assistant messages received, and
\* the summary the joined text of the most recent assistant message that
\* contained text (read either as one with a text block or as one with a
\* text that is not empty), "Completed" if none had text; a result message
\* with a non-success subtype yields success = false.
C24_SummaryOfLastText ==
    /\ EndedWithoutResult =>
          /\ result.success = TRUE
          /\ result.turns = Responses
          /\ result.summary \in {TextOfLatest(WithTextBlock), TextOfLatest(WithText)}
    /\ EndedByErrorResult => result.success = FALSE

\* C24, amended: when the stream ends without a result message the result
\* is success = true, turns the number of assistant messages received, and
\* the summary the joined text of the most recent assistant message that
\* had a text block, unless there is none or that text is empty, when it
\* is "Completed"; a message without text block leaves the text of an
\* earlier one in place; a result message with a non-success subtype
\* yields success = false.
C24_SummaryOfLastTextBlock ==
    /\ EndedWithoutResult =>
          /\ result.success = TRUE
          /\ result.turns = Responses
          /\ result.summary =
                IF WithTextBlock = {} THEN <<"Completed">>
                ELSE OrElse(TextOfLatest(WithTextBlock), <<"Completed">>)
    /\ EndedByErrorResult => result.success = FALSE

\* C24 witness: the stream ended without a result message after two
\* assistant messages, the first with text, the second without any block,
\* and the summary is the text of the first.
C24_Witness ==
    /\ EndedWithoutResult
    /\ Responses = 2
    /\ WithTextBlock # {}
    /\ LastContent = << >>
    /\ result = [kind |-> "result", success |-> TRUE,
                 summary |-> <<"T1">>, turns |-> 2]

====
